---- MODULE Spec2Model ----
(***************************************************************************)
(* Commodity price scraper (scraper.py): one synchronous run fetches the   *)
(* commodities page, extracts one record per table row, and writes the     *)
(* records to files under data/.                                           *)
(*                                                                         *)
(* Text is a sequence of one-character strings.  A page is a sequence of   *)
(* tables; a table has a class list, possibly a tbody, and rows; a row is  *)
(* a sequence of td cells; a cell is a sequence of child nodes (text       *)
(* nodes, anchors, spans), each with its class list and text.              *)
(***************************************************************************)
EXTENDS Integers, Sequences, FiniteSets, TLC

\* ------------------------------------------------------------------ bounds
MaxTables == 5        \* tables in a generated page
MaxRows == 2          \* rows in a generated table
MaxRuns == 2          \* runs of main in the multi-run specification
MaxClock == 3         \* the clock stops advancing here
TicksPerSecond == 2   \* clock ticks per second of the file-name timestamp

\* ------------------------------------------------------------------- text
Whitespace == {" ", "\n"}

RECURSIVE lstrip(_)
lstrip(s) ==
  IF s = <<>> THEN <<>>
  ELSE IF Head(s) \in Whitespace THEN lstrip(Tail(s)) ELSE s

RECURSIVE rstrip(_)
rstrip(s) ==
  IF s = <<>> THEN <<>>
  ELSE IF s[Len(s)] \in Whitespace THEN rstrip(SubSeq(s, 1, Len(s) - 1)) ELSE s

\* str.strip(): leading and trailing whitespace removed.
strip(s) == rstrip(lstrip(s))

\* ------------------------------------------------------------- HTML nodes
NoElem == [tag |-> "none", class |-> {}, text |-> <<>>]

TextNode(t) == [tag |-> "#text", class |-> {}, text |-> t]
Anchor(t) == [tag |-> "a", class |-> {}, text |-> t]
Span(c, t) == [tag |-> "span", class |-> c, text |-> t]

\* Tag.text: the concatenated text of every descendant, in document order.
RECURSIVE text(_)
text(cell) ==
  IF cell = <<>> THEN <<>> ELSE Head(cell).text \o text(Tail(cell))

\* Tag.find(tag) / Tag.find(tag, class_=cls): the first matching descendant,
\* or None.  cls = "" stands for a call without class_.
RECURSIVE find(_, _, _)
find(cell, tag, cls) ==
  IF cell = <<>> THEN NoElem
  ELSE LET n == Head(cell) IN
       IF n.tag = tag /\ (cls = "" \/ cls \in n.class) THEN n
       ELSE find(Tail(cell), tag, cls)

\* `x.text.strip() if x else cell.text.strip()`
TextOf(elem, cell) ==
  IF elem # NoElem THEN strip(elem.text) ELSE strip(text(cell))

\* ------------------------------------------------------------ extraction
categories == <<"Precious Metals", "Energy", "Industrial Metals", "Agriculture">>

\* A faulty variant of Trend: red is tested before green.
TrendRedFirst(pct_span) ==
  IF pct_span # NoElem
  THEN IF "colorRed" \in pct_span.class THEN "down"
       ELSE IF "colorGreen" \in pct_span.class THEN "up"
       ELSE "neutral"
  ELSE "neutral"

\* Lines 82-87: the trend from the classes of the percentage cell's span.
Trend(pct_span) ==
  IF pct_span # NoElem
  THEN IF "colorGreen" \in pct_span.class THEN "up"
       ELSE IF "colorRed" \in pct_span.class THEN "down"
       ELSE "neutral"
  ELSE "neutral"

\* A faulty variant of CommodityData: the name is read like the price, from the
\* push-data span.
CommodityDataNameFromSpan(category, cells) ==
  LET pct_span == find(cells[3], "span", "push-data") IN
  [category |-> category,
   name |-> TextOf(find(cells[1], "span", "push-data"), cells[1]),
   price |-> TextOf(find(cells[2], "span", "push-data"), cells[2]),
   percentage_change |-> TextOf(pct_span, cells[3]),
   absolute_change |-> TextOf(find(cells[4], "span", "push-data"), cells[4]),
   unit |-> strip(text(cells[5])),
   market_time |-> TextOf(find(cells[6], "span", "push-data"), cells[6]),
   trend |-> Trend(pct_span)]

\* Lines 58-98: the record of one row of at least six cells.
CommodityData(category, cells) ==
  LET pct_span == find(cells[3], "span", "push-data") IN
  [category |-> category,
   name |-> TextOf(find(cells[1], "a", ""), cells[1]),
   price |-> TextOf(find(cells[2], "span", "push-data"), cells[2]),
   percentage_change |-> TextOf(pct_span, cells[3]),
   absolute_change |-> TextOf(find(cells[4], "span", "push-data"), cells[4]),
   unit |-> strip(text(cells[5])),
   market_time |-> TextOf(find(cells[6], "span", "push-data"), cells[6]),
   trend |-> Trend(pct_span)]

\* A faulty variant of RowsRecords: a row of fewer than six cells ends the loop.
RECURSIVE RowsRecordsBreak(_, _)
RowsRecordsBreak(category, rows) ==
  IF rows = <<>> THEN <<>>
  ELSE IF Len(Head(rows)) >= 6
       THEN <<CommodityData(category, Head(rows))>>
            \o RowsRecordsBreak(category, Tail(rows))
       ELSE <<>>

\* Lines 55-100: the records of the rows of one table, in row order.
RECURSIVE RowsRecords(_, _)
RowsRecords(category, rows) ==
  IF rows = <<>> THEN <<>>
  ELSE (IF Len(Head(rows)) >= 6
        THEN <<CommodityData(category, Head(rows))>> ELSE <<>>)
       \o RowsRecords(category, Tail(rows))

\* A faulty variant of TableRows: the rows are looked up in the table itself.
TableRowsAnywhere(table) == table.rows

\* Line 53: `table.find('tbody').find_all('tr') if table.find('tbody') else []`
TableRows(table) == IF table.tbody THEN table.rows ELSE <<>>

\* A faulty variant of find_all_tables: every table, whatever its class.
find_all_tables_any(doc) == doc

\* Line 40: soup.find_all('table', class_='table')
find_all_tables(doc) == SelectSeq(doc, LAMBDA t : "table" \in t.class)

\* Line 45: tables[:4]
FirstFour(tables) ==
  SubSeq(tables, 1, IF Len(tables) < 4 THEN Len(tables) ELSE 4)

\* Lines 45-100: the loop over the tables, i counting from 1.
RECURSIVE TablesRecords(_, _)
TablesRecords(tables, i) ==
  IF i > Len(tables) \/ i > Len(categories) THEN <<>>
  ELSE RowsRecords(categories[i], TableRows(tables[i]))
       \o TablesRecords(tables, i + 1)

FetchOutcomes == {"ok", "http_error", "timeout", "transport_error", "parse_error"}

\* Lines 32-110: the list scrape_commodity_prices returns for one response.
\* Every outcome other than "ok" raises inside the try block and is caught.
scrape_commodity_prices(outcome, doc) ==
  IF outcome # "ok" THEN <<>>
  ELSE TablesRecords(FirstFour(find_all_tables(doc)), 1)

\* ------------------------------------------------------------------ JSON
\* A JSON value is a tagged record: [t |-> "str", v |-> text],
\* [t |-> "num", v |-> n], [t |-> "arr", v |-> sequence of values],
\* [t |-> "obj", v |-> sequence of [k |-> text, v |-> value]] (a dict keeps
\* its insertion order).  A JSON file is the text json.dump writes; of the
\* layout of indent=2 it keeps the line break after a comma and the space
\* after a colon.
JStr(s) == [t |-> "str", v |-> s]
JNum(n) == [t |-> "num", v |-> n]
JArr(a) == [t |-> "arr", v |-> a]
JObj(m) == [t |-> "obj", v |-> m]

\* What stands for the JSONDecodeError json.load raises.
DecodeError == [t |-> "error", v |-> <<>>]

Digits == <<"0", "1", "2", "3", "4", "5", "6", "7", "8", "9">>
IsDigit(c) == \E d \in 1..10 : Digits[d] = c

\* int.__repr__ of a natural number.
RECURSIVE IntToText(_)
IntToText(n) ==
  IF n < 10 THEN <<Digits[n + 1]>>
  ELSE IntToText(n \div 10) \o <<Digits[(n % 10) + 1]>>

DigitValue(c) == CHOOSE d \in 0..9 : Digits[d + 1] = c

\* A faulty variant of EscapeChar: the backslash is written as it is.
EscapeCharNoBackslash(c) ==
  IF c = "\"" THEN <<"\\", "\"">>
  ELSE IF c = "\n" THEN <<"\\", "n">>
  ELSE <<c>>

\* json.encoder: the escape of one character of a string.
EscapeChar(c) ==
  IF c = "\"" THEN <<"\\", "\"">>
  ELSE IF c = "\\" THEN <<"\\", "\\">>
  ELSE IF c = "\n" THEN <<"\\", "n">>
  ELSE <<c>>

RECURSIVE Escape(_)
Escape(s) == IF s = <<>> THEN <<>> ELSE EscapeChar(Head(s)) \o Escape(Tail(s))

\* json.encoder: a string literal.
StringLiteral(s) == <<"\"">> \o Escape(s) \o <<"\"">>

\* json.dump: the text of a value.
RECURSIVE dump(_)
RECURSIVE dumpItems(_)
RECURSIVE dumpMembers(_)
dump(val) ==
  IF val.t = "str" THEN StringLiteral(val.v)
  ELSE IF val.t = "num" THEN IntToText(val.v)
  ELSE IF val.t = "arr" THEN <<"[">> \o dumpItems(val.v) \o <<"]">>
  ELSE <<"{">> \o dumpMembers(val.v) \o <<"}">>
dumpItems(a) ==
  IF a = <<>> THEN <<>>
  ELSE dump(Head(a))
       \o (IF Len(a) > 1 THEN <<",", "\n">> ELSE <<>>) \o dumpItems(Tail(a))
dumpMembers(m) ==
  IF m = <<>> THEN <<>>
  ELSE StringLiteral(Head(m).k) \o <<":", " ">> \o dump(Head(m).v)
       \o (IF Len(m) > 1 THEN <<",", "\n">> ELSE <<>>) \o dumpMembers(Tail(m))

\* json.decoder: each scanner takes the text and a position and gives
\* [val, next]: the value read and the position after it.  A text that is
\* no JSON gives DecodeError.
Failed(s) == [val |-> DecodeError, next |-> Len(s) + 1]

RECURSIVE skip(_, _)
skip(s, p) == IF p <= Len(s) /\ s[p] \in Whitespace THEN skip(s, p + 1) ELSE p

\* scanstring, from the position after the opening quote.
RECURSIVE scanstring(_, _, _)
scanstring(s, p, acc) ==
  IF p > Len(s) THEN Failed(s)
  ELSE IF s[p] = "\"" THEN [val |-> JStr(acc), next |-> p + 1]
  ELSE IF s[p] = "\\" THEN
    IF p + 1 > Len(s) THEN Failed(s)
    ELSE IF s[p + 1] \in {"\"", "\\"} THEN scanstring(s, p + 2, Append(acc, s[p + 1]))
    ELSE IF s[p + 1] = "n" THEN scanstring(s, p + 2, Append(acc, "\n"))
    ELSE Failed(s)
  ELSE IF s[p] = "\n" THEN Failed(s)
  ELSE scanstring(s, p + 1, Append(acc, s[p]))

RECURSIVE scannumber(_, _, _)
scannumber(s, p, n) ==
  IF p <= Len(s) /\ IsDigit(s[p]) THEN scannumber(s, p + 1, 10 * n + DigitValue(s[p]))
  ELSE [val |-> JNum(n), next |-> p]

RECURSIVE scan(_, _)
RECURSIVE scanItems(_, _, _)
RECURSIVE scanMembers(_, _, _)
scan(s, p0) ==
  LET p == skip(s, p0) IN
  IF p > Len(s) THEN Failed(s)
  ELSE IF s[p] = "\"" THEN scanstring(s, p + 1, <<>>)
  ELSE IF s[p] = "[" THEN scanItems(s, p + 1, <<>>)
  ELSE IF s[p] = "{" THEN scanMembers(s, p + 1, <<>>)
  ELSE IF IsDigit(s[p]) THEN scannumber(s, p, 0)
  ELSE Failed(s)
scanItems(s, p0, acc) ==
  LET p == skip(s, p0) IN
  IF p > Len(s) THEN Failed(s)
  ELSE IF s[p] = "]" THEN [val |-> JArr(acc), next |-> p + 1]
  ELSE IF s[p] = "," /\ acc # <<>> THEN
    LET r == scan(s, p + 1) IN
    IF r.val.t = "error" THEN Failed(s)
    ELSE scanItems(s, r.next, Append(acc, r.val))
  ELSE IF acc = <<>> THEN
    LET r == scan(s, p) IN
    IF r.val.t = "error" THEN Failed(s)
    ELSE scanItems(s, r.next, Append(acc, r.val))
  ELSE Failed(s)
scanMembers(s, p0, acc) ==
  LET p == skip(s, p0) IN
  IF p > Len(s) THEN Failed(s)
  ELSE IF s[p] = "}" THEN [val |-> JObj(acc), next |-> p + 1]
  ELSE LET q == IF s[p] = "," /\ acc # <<>> THEN skip(s, p + 1) ELSE p IN
       IF (s[p] = ",") # (acc # <<>>) \/ q > Len(s) \/ s[q] # "\"" THEN Failed(s)
       ELSE LET key == scanstring(s, q + 1, <<>>)
                c == skip(s, key.next)
            IN IF key.val.t = "error" \/ c > Len(s) \/ s[c] # ":" THEN Failed(s)
               ELSE LET r == scan(s, c + 1) IN
                    IF r.val.t = "error" THEN Failed(s)
                    ELSE scanMembers(s, r.next,
                                     Append(acc, [k |-> key.val.v, v |-> r.val]))

\* json.load: the value of a whole file.
load(s) ==
  LET r == scan(s, 1) IN
  IF r.val.t # "error" /\ skip(s, r.next) > Len(s) THEN r.val ELSE DecodeError

\* dict[key] of a loaded object; DecodeError stands for what is not there.
Get(obj, key) ==
  IF obj.t = "obj" /\ \E j \in 1..Len(obj.v) : obj.v[j].k = key
  THEN obj.v[CHOOSE j \in 1..Len(obj.v) : obj.v[j].k = key].v
  ELSE DecodeError

\* A Python str literal as a text, shortened to at most three characters;
\* literals that differ stay different.
Str(s) ==
  CASE s = "category" -> <<"c", "a", "t">>
    [] s = "name" -> <<"n", "a", "m">>
    [] s = "price" -> <<"p", "r", "i">>
    [] s = "percentage_change" -> <<"p", "c", "t">>
    [] s = "absolute_change" -> <<"a", "b", "s">>
    [] s = "unit" -> <<"u", "n", "i">>
    [] s = "market_time" -> <<"m", "k", "t">>
    [] s = "trend" -> <<"t", "r", "e">>
    [] s = "scrape_timestamp_utc" -> <<"s", "t", "s">>
    [] s = "total_commodities" -> <<"t", "o", "t">>
    [] s = "categories" -> <<"c", "a", "s">>
    [] s = "commodities" -> <<"c", "o", "m">>
    [] s = "last_updated_utc" -> <<"l", "u", "p">>
    [] s = "categories_summary" -> <<"c", "s", "u">>
    [] s = "count" -> <<"c", "n", "t">>
    [] s = "Precious Metals" -> <<"P", "M">>
    [] s = "Energy" -> <<"E", "n">>
    [] s = "Industrial Metals" -> <<"I", "M">>
    [] s = "Agriculture" -> <<"A", "g">>
    [] s = "up" -> <<"u", "p">>
    [] s = "down" -> <<"d", "n">>
    [] s = "neutral" -> <<"n", "e">>

\* ----------------------------------------------------------------- files
Columns == <<"category", "name", "price", "percentage_change",
             "absolute_change", "unit", "market_time", "trend">>

\* The value of one key of a record, as the str it is in Python.
Field(item, key) ==
  IF key = "category" THEN Str(item.category)
  ELSE IF key = "trend" THEN Str(item.trend)
  ELSE item[key]

\* A commodity_data dict as a JSON object, keys in insertion order.
ItemJson(item) ==
  JObj([k \in 1..Len(Columns) |->
          [k |-> Str(Columns[k]), v |-> JStr(Field(item, Columns[k]))]])

\* set(item['category'] for item in commodities_data)
CategorySet(data) == {data[i].category : i \in 1..Len(data)}

\* Lines 127-132: data_structure.
DataStructure(timestamp, data) ==
  JObj(<<[k |-> Str("scrape_timestamp_utc"), v |-> JStr(timestamp)],
         [k |-> Str("total_commodities"), v |-> JNum(Len(data))],
         [k |-> Str("categories"), v |-> JNum(Cardinality(CategorySet(data)))],
         [k |-> Str("commodities"),
          v |-> JArr([i \in 1..Len(data) |-> ItemJson(data[i])])]>>)

\* csv.writer with QUOTE_MINIMAL: a field holding a comma, a quote or a line
\* break is quoted and its quotes are doubled.
RECURSIVE DoubleQuotes(_)
DoubleQuotes(s) ==
  IF s = <<>> THEN <<>>
  ELSE (IF Head(s) = "\"" THEN <<"\"", "\"">> ELSE <<Head(s)>>)
       \o DoubleQuotes(Tail(s))

CsvField(s) ==
  IF \E i \in 1..Len(s) : s[i] \in {",", "\"", "\n"}
  THEN <<"\"">> \o DoubleQuotes(s) \o <<"\"">>
  ELSE s

\* Lines 141-144: DataFrame(commodities_data) with the scrape_timestamp_utc
\* column, written by to_csv(index=False): the header line, then one line
\* for each record.  A line is the sequence of its fields.
to_csv(timestamp, data) ==
  <<[k \in 1..(Len(Columns) + 1) |->
       IF k <= Len(Columns) THEN Str(Columns[k]) ELSE Str("scrape_timestamp_utc")]>>
  \o [i \in 1..Len(data) |->
        [k \in 1..(Len(Columns) + 1) |->
           IF k <= Len(Columns) THEN CsvField(Field(data[i], Columns[k]))
           ELSE CsvField(timestamp)]]

\* [item for item in commodities_data if item['category'] == category]
CategoryItems(data, category) ==
  SelectSeq(data, LAMBDA item : item.category = category)

\* Lines 156-167: summary.  order is the order in which the set of
\* categories is iterated.
Summary(timestamp, data, order) ==
  JObj(<<[k |-> Str("last_updated_utc"), v |-> JStr(timestamp)],
         [k |-> Str("total_commodities"), v |-> JNum(Len(data))],
         [k |-> Str("categories_summary"),
          v |-> JObj([j \in 1..Len(order) |->
                 [k |-> Str(order[j]),
                  v |-> LET items == CategoryItems(data, order[j]) IN
                        JObj(<<[k |-> Str("count"), v |-> JNum(Len(items))],
                               [k |-> Str("commodities"),
                                v |-> JArr([i \in 1..Len(items) |->
                                              JStr(items[i].name)])]>>)]])]>>)

\* The orders in which a set can be iterated.
Orders(S) ==
  {o \in [1..Cardinality(S) -> S] : \A i, j \in 1..Cardinality(S) : o[i] = o[j] => i = j}

\* File names under data/.  stamp is -1 for a name without a timestamp.
Snapshot(stamp, ext) == [base |-> "commodity_prices", stamp |-> stamp, ext |-> ext]
LatestJson == [base |-> "latest_prices", stamp |-> -1, ext |-> "json"]
LatestCsv == [base |-> "latest_prices", stamp |-> -1, ext |-> "csv"]
SummaryJson == [base |-> "summary", stamp |-> -1, ext |-> "json"]

Put(fs, name, content) ==
  [n \in DOMAIN fs \cup {name} |-> IF n = name THEN content ELSE fs[n]]

\* --------------------------------------------------------------- the runs
VARIABLES
  page,              \* the document the site serves
  clock,             \* the UTC clock, in ticks
  runsLeft,          \* runs of main still to be started
  pc,                \* where the running process is; "idle" when none runs
  outcome,           \* what the fetch of the last run met
  commodities,       \* the list scrape_commodity_prices returned
  scrape_timestamp,  \* save_data's scrape_timestamp
  files,             \* the files under data/: name -> content
  written,           \* the names the current run has written in full
  archived,          \* the snapshot names written by runs that reported success
  exit_code          \* the exit status of the last run; -1 while it runs

vars == <<page, clock, runsLeft, pc, outcome, commodities, scrape_timestamp,
          files, written, archived, exit_code>>

\* datetime.now(timezone.utc).isoformat(): the clock at full resolution.
isoformat(c) == IntToText(c)

\* datetime.now(timezone.utc).strftime("%Y%m%d_%H%M%S"): whole seconds.
strftime(c) == c \div TicksPerSecond

WriteResults == {"ok", "open_error", "write_error"}

\* A faulty variant of Uncaught: the exception is swallowed and the status is 0.
UncaughtSwallowed ==
  /\ pc' = "idle"
  /\ exit_code' = 0

\* An exception that nothing catches: the traceback is printed and the
\* process ends with status 1.
Uncaught ==
  /\ pc' = "idle"
  /\ exit_code' = 1

\* `with open(name, 'w') as f: json.dump(...)` or df.to_csv(name): the file
\* is written in full, or open raises and the file is untouched, or the
\* write raises after open has truncated the file.
Write(name, content, result, next) ==
  /\ result \in WriteResults
  /\ CASE result = "ok" ->
            /\ files' = Put(files, name, content)
            /\ written' = written \cup {name}
            /\ pc' = next
            /\ UNCHANGED exit_code
       [] result = "open_error" ->
            /\ Uncaught
            /\ UNCHANGED <<files, written>>
       [] result = "write_error" ->
            /\ files' = Put(files, name, <<>>)
            /\ written' = written \ {name}
            /\ Uncaught

\* The clock advances.
Tick ==
  /\ clock < MaxClock
  /\ clock' = clock + 1
  /\ UNCHANGED <<page, runsLeft, pc, outcome, commodities, scrape_timestamp,
                 files, written, archived, exit_code>>

\* Lines 177-180: main starts and calls scrape_commodity_prices.
StartMain ==
  /\ pc = "idle"
  /\ runsLeft > 0
  /\ runsLeft' = runsLeft - 1
  /\ \E o \in FetchOutcomes :
       /\ outcome' = o
       /\ commodities' = scrape_commodity_prices(o, page)
  /\ pc' = "main_if"
  /\ exit_code' = -1
  /\ written' = {}
  /\ UNCHANGED <<page, clock, scrape_timestamp, files, archived>>

\* A faulty variant of MainIf: the data is saved whether or not there is any.
MainIfAlwaysSaves ==
  /\ pc = "main_if"
  /\ pc' = "save_data"
  /\ UNCHANGED <<page, clock, runsLeft, outcome, commodities, scrape_timestamp,
                 files, written, archived, exit_code>>

\* Lines 182-191: `if commodities:` ... `else:` ... exit(1).
MainIf ==
  /\ pc = "main_if"
  /\ IF commodities # <<>>
     THEN pc' = "save_data" /\ UNCHANGED exit_code
     ELSE pc' = "idle" /\ exit_code' = 1
  /\ UNCHANGED <<page, clock, runsLeft, outcome, commodities, scrape_timestamp,
                 files, written, archived>>

\* Lines 116-124: save_data returns at once without data; else it takes the
\* timestamp and makes the data directory, which may raise.
SaveDataBegin ==
  /\ pc = "save_data"
  /\ IF commodities = <<>>
     THEN pc' = "done" /\ UNCHANGED <<scrape_timestamp, exit_code>>
     ELSE /\ scrape_timestamp' = isoformat(clock)
          /\ \E ok \in BOOLEAN :
               IF ok THEN pc' = "json" /\ UNCHANGED exit_code ELSE Uncaught
  /\ UNCHANGED <<page, clock, runsLeft, outcome, commodities, files, written,
                 archived>>

\* Lines 135-138: the timestamped JSON file.
WriteJson ==
  /\ pc = "json"
  /\ \E r \in WriteResults :
       Write(Snapshot(strftime(clock), "json"),
             dump(DataStructure(scrape_timestamp, commodities)), r, "csv")
  /\ UNCHANGED <<page, clock, runsLeft, outcome, commodities, scrape_timestamp,
                 archived>>

\* Lines 141-145: the timestamped CSV file.
WriteCsv ==
  /\ pc = "csv"
  /\ \E r \in WriteResults :
       Write(Snapshot(strftime(clock), "csv"),
             to_csv(scrape_timestamp, commodities), r, "latest_json")
  /\ UNCHANGED <<page, clock, runsLeft, outcome, commodities, scrape_timestamp,
                 archived>>

\* A faulty variant of WriteLatestJson: the latest JSON file is not written.
WriteLatestJsonSkipped ==
  /\ pc = "latest_json"
  /\ pc' = "latest_csv"
  /\ UNCHANGED <<page, clock, runsLeft, outcome, commodities, scrape_timestamp,
                 files, written, archived, exit_code>>

\* Lines 148-150: data/latest_prices.json.
WriteLatestJson ==
  /\ pc = "latest_json"
  /\ \E r \in WriteResults :
       Write(LatestJson, dump(DataStructure(scrape_timestamp, commodities)),
             r, "latest_csv")
  /\ UNCHANGED <<page, clock, runsLeft, outcome, commodities, scrape_timestamp,
                 archived>>

\* Lines 152-153: data/latest_prices.csv.
WriteLatestCsv ==
  /\ pc = "latest_csv"
  /\ \E r \in WriteResults :
       Write(LatestCsv, to_csv(scrape_timestamp, commodities), r, "summary")
  /\ UNCHANGED <<page, clock, runsLeft, outcome, commodities, scrape_timestamp,
                 archived>>

\* Lines 156-171: data/summary.json.
WriteSummary ==
  /\ pc = "summary"
  /\ \E r \in WriteResults, order \in Orders(CategorySet(commodities)) :
       Write(SummaryJson, dump(Summary(scrape_timestamp, commodities, order)),
             r, "done")
  /\ UNCHANGED <<page, clock, runsLeft, outcome, commodities, scrape_timestamp,
                 archived>>

\* Line 188 and the end of main: success is reported, the status is 0.
Finish ==
  /\ pc = "done"
  /\ pc' = "idle"
  /\ exit_code' = 0
  /\ archived' = archived \cup {n \in written : n.base = "commodity_prices"}
  /\ UNCHANGED <<page, clock, runsLeft, outcome, commodities, scrape_timestamp,
                 files, written>>

\* ----------------------------------------------------------------- pages
Table(class, tbody, rows) == [class |-> class, tbody |-> tbody, rows |-> rows]

\* A row of n cells of plain text; cell k reads ch followed by the digit k.
PlainRow(ch, n) == [k \in 1..n |-> <<TextNode(<<ch, Digits[k + 1]>>)>>]

RowA == PlainRow("a", 6)
RowB == PlainRow("b", 7)
RowS == PlainRow("s", 5)

SeqsUpTo(S, n) == UNION {[1..m -> S] : m \in 0..n}

\* Pages that vary the tables: a table of another class, a table without a
\* tbody (its row sits directly under it), and a table with a tbody.
TableKinds ==
  {Table({"other"}, TRUE, <<RowA>>),
   Table({"table"}, FALSE, <<RowA>>),
   Table({"table", "wide"}, TRUE, <<RowS, RowB>>)}

\* Pages that vary the rows of one table.
RowTables == {Table({"table"}, TRUE, rows) : rows \in SeqsUpTo({RowA, RowB, RowS}, MaxRows)}

StructurePages == SeqsUpTo(TableKinds, MaxTables) \cup {<<t>> : t \in RowTables}

\* Pages of one table with one row that vary the markup of the cells.
Plain == <<TextNode(<<" ", "a", " ">>)>>
CellPool ==
  {Plain,
   <<TextNode(<<"x">>), Anchor(<<" ", "b", " ">>)>>,
   <<TextNode(<<"x", " ">>), Span({"push-data", "colorGreen"}, <<" ", "1", "\n">>)>>,
   <<Span({"push-data", "colorRed"}, <<"2">>), TextNode(<<" ", "y">>)>>,
   <<Span({"push-data", "colorGreen", "colorRed"}, <<"3">>)>>,
   <<Span({"colorGreen"}, <<"4">>), Span({"push-data"}, <<"5", " ">>)>>,
   <<Anchor(<<"\"", "q", "\\">>), Span({"push-data"}, <<" ", "6">>)>>,
   <<Span({"colorRed"}, <<"7", ",">>)>>}

ValueCells ==
  {Plain,
   <<TextNode(<<"x", " ">>), Span({"push-data", "colorGreen"}, <<" ", "1", "\n">>)>>,
   <<Anchor(<<"\"", "q", "\\">>), Span({"push-data"}, <<" ", "6">>)>>}

FieldPages ==
  {<<Table({"table"}, TRUE, <<<<c1, c2, c3, c4, Plain, c6>>>>)>> :
     c1 \in CellPool, c2 \in ValueCells, c3 \in CellPool, c4 \in ValueCells,
     c6 \in {Plain, <<Span({"push-data"}, <<"8">>)>>}}

\* The pages the site serves in the runs that follow one another.
SitePages ==
  {<<>>,
   <<Table({"table"}, TRUE, <<RowA>>)>>,
   <<Table({"table"}, TRUE, <<RowB, RowS>>), Table({"table"}, TRUE, <<RowA>>)>>}

\* Between two runs the site changes the page it serves.
SiteUpdates ==
  /\ pc = "idle"
  /\ runsLeft > 0
  /\ \E p \in SitePages : p # page /\ page' = p
  /\ UNCHANGED <<clock, runsLeft, pc, outcome, commodities, scrape_timestamp,
                 files, written, archived, exit_code>>

Start(pages, c, runs) ==
  /\ page \in pages
  /\ clock = c
  /\ runsLeft = runs
  /\ pc = "idle"
  /\ outcome = "ok"
  /\ commodities = <<>>
  /\ scrape_timestamp = isoformat(0)
  /\ files = <<>>
  /\ written = {}
  /\ archived = {}
  /\ exit_code = -1

\* No run yet, an empty data directory.
Init == Start(SitePages, 0, MaxRuns)

\* One run over each of the structure pages.
InitStructure == Start(StructurePages, MaxClock - 1, 1)

\* One run over each of the field pages.
InitFields == Start(FieldPages, MaxClock - 1, 1)

Next ==
  \/ Tick
  \/ SiteUpdates
  \/ StartMain
  \/ MainIf
  \/ SaveDataBegin
  \/ WriteJson
  \/ WriteCsv
  \/ WriteLatestJson
  \/ WriteLatestCsv
  \/ WriteSummary
  \/ Finish

Spec == Init /\ [][Next]_vars
SpecStructure == InitStructure /\ [][Next]_vars
SpecFields == InitFields /\ [][Next]_vars

\* ================================================================ claims
\* The last run has ended and left an exit status.
Exited == pc = "idle" /\ exit_code # -1

\* The run has reported success: "Scrape completed successfully!" printed.
Succeeded == pc = "done" \/ (Exited /\ exit_code = 0)

\* scrape_commodity_prices has just returned for the page served.
Scraped == pc = "main_if" /\ outcome = "ok"

Least(S) == CHOOSE x \in S : \A y \in S : x <= y

\* The tables of a page that have the class, and the place of one among them.
Matching(doc) == {i \in 1..Len(doc) : "table" \in doc[i].class}
Position(doc, i) == Cardinality({j \in Matching(doc) : j <= i})

\* The rows that are to give a record: <<table, row>> for each row of at
\* least six cells in the body of one of the first four matching tables.
Processed(doc) == {i \in Matching(doc) : Position(doc, i) <= 4 /\ doc[i].tbody}
Slots(doc) ==
  UNION {{<<i, r>> : r \in {q \in 1..Len(doc[i].rows) : Len(doc[i].rows[q]) >= 6}} :
           i \in Processed(doc)}

\* The place of a slot in table order, then row order.
Rank(doc, sl) ==
  Cardinality({o \in Slots(doc) : o[1] < sl[1] \/ (o[1] = sl[1] /\ o[2] <= sl[2])})

RowAt(doc, sl) == doc[sl[1]].rows[sl[2]]

\* The live-value element of a cell: its first span of class push-data.
LiveIdx(cell) ==
  {i \in 1..Len(cell) : cell[i].tag = "span" /\ "push-data" \in cell[i].class}
HasLive(cell) == LiveIdx(cell) # {}
LiveElem(cell) == cell[Least(LiveIdx(cell))]
Marked(cell, marker) == HasLive(cell) /\ marker \in LiveElem(cell).class

AnchorIdx(cell) == {i \in 1..Len(cell) : cell[i].tag = "a"}

\* t is s without its leading and trailing whitespace.
IsTrimmed(s, t) ==
  \E i \in 1..Len(s) + 1, j \in 0..Len(s) :
    /\ t = SubSeq(s, i, j)
    /\ \A k \in 1..Len(s) : (k < i \/ k > j) => s[k] \in Whitespace
    /\ i <= j => s[i] \notin Whitespace /\ s[j] \notin Whitespace

\* The five output files, as the current run has written them.
SnapshotsWritten(ext) == {n \in written : n.base = "commodity_prices" /\ n.ext = ext}
AllWritten ==
  /\ {LatestJson, LatestCsv, SummaryJson} \subseteq written
  /\ SnapshotsWritten("json") # {}
  /\ SnapshotsWritten("csv") # {}

\* A JSON file read back holds the commodities of the run, record by record
\* and field by field, and their number as total_commodities.
ReadsBack(file) ==
  LET d == load(file)
      list == Get(d, Str("commodities"))
      total == Get(d, Str("total_commodities"))
  IN /\ d.t = "obj"
     /\ list.t = "arr"
     /\ Len(list.v) = Len(commodities)
     /\ \A i \in 1..Len(list.v) :
          /\ list.v[i].t = "obj"
          /\ Len(list.v[i].v) = Len(Columns)
          /\ \A k \in 1..Len(Columns) :
               LET x == Get(list.v[i], Str(Columns[k])) IN
               x.t = "str" /\ x.v = Field(commodities[i], Columns[k])
     /\ total.t = "num"
     /\ total.v = Len(commodities)

\* A summary file read back counts and names the commodities of the run,
\* category by category.
SummaryReadsBack(file) ==
  LET d == load(file)
      total == Get(d, Str("total_commodities"))
      cats == Get(d, Str("categories_summary"))
  IN /\ d.t = "obj"
     /\ total.t = "num" /\ total.v = Len(commodities)
     /\ cats.t = "obj"
     /\ Len(cats.v) = Cardinality(CategorySet(commodities))
     /\ \A c \in CategorySet(commodities) :
          LET e == Get(cats, Str(c))
              members == {i \in 1..Len(commodities) : commodities[i].category = c}
          IN /\ e.t = "obj"
             /\ Get(e, Str("count")).t = "num"
             /\ Get(e, Str("count")).v = Cardinality(members)
             /\ Get(e, Str("commodities")).t = "arr"
             /\ Len(Get(e, Str("commodities")).v) = Cardinality(members)
             /\ \A i \in members :
                  \E j \in 1..Cardinality(members) :
                    Get(e, Str("commodities")).v[j] = JStr(commodities[i].name)

\* A CSV file holds the header and one line for each commodity of the run.
CsvCarries(lines) ==
  /\ Len(lines) = Len(commodities) + 1
  /\ \A i \in 1..Len(commodities) :
       /\ Len(lines[i + 1]) = Len(Columns) + 1
       /\ \A k \in 1..Len(Columns) :
            lines[i + 1][k] = CsvField(Field(commodities[i], Columns[k]))

\* ------------------------------------------------------------------- C1
\* C1 as stated: a run exits with 1 exactly when extraction returned no
\* record and with 0 when it returned one or more; nothing else happens.
C1_AsStated ==
  Exited =>
    /\ exit_code \in {0, 1}
    /\ exit_code = 1 <=> commodities = <<>>

\* C1 amended: a run exits with 1 when extraction returned no record; with
\* one or more records it exits with 0 exactly when save_data has written
\* every file, and with 1 when the data directory or a file cannot be
\* written and the exception ends the process.  No other status occurs.
C1_ExitStatus ==
  Exited =>
    /\ exit_code \in {0, 1}
    /\ commodities = <<>> => exit_code = 1
    /\ commodities # <<>> => (exit_code = 0 <=> AllWritten)

\* A run with records that ended with status 1.
C1_Witness == Exited /\ commodities # <<>> /\ exit_code = 1 /\ written # {}

\* ------------------------------------------------------------------- C2
\* C2 as stated: a page in which a matching table has no tbody yields the
\* empty list.
C2_AsStated ==
  (Scraped /\ \E i \in Matching(page) : ~page[i].tbody) => commodities = <<>>

\* C2 amended: scrape_commodity_prices never raises; a fetch failure yields
\* the empty list; a fetched page yields the empty list exactly when none of
\* its first four matching tables has a tbody with a row of at least six
\* cells - so a page without matching tables, or whose matching tables all
\* lack a tbody, yields the empty list, and a table without a tbody beside a
\* well-formed table does not.
C2_EmptyResult ==
  pc = "main_if" =>
    /\ exit_code = -1
    /\ outcome # "ok" => commodities = <<>>
    /\ outcome = "ok" => (commodities = <<>> <=> Slots(page) = {})
    /\ (outcome = "ok" /\ Matching(page) = {}) => commodities = <<>>
    /\ (outcome = "ok" /\ \A i \in Matching(page) : ~page[i].tbody)
         => commodities = <<>>

\* A page whose only matching tables lack a tbody, though rows sit in them,
\* has been scraped to the empty list.
C2_Witness ==
  /\ Scraped
  /\ Matching(page) # {}
  /\ \A i \in Matching(page) : ~page[i].tbody /\ page[i].rows # <<>>
  /\ commodities = <<>>

ShortSlots(doc) ==
  UNION {{<<i, r>> : r \in {q \in 1..Len(doc[i].rows) : Len(doc[i].rows[q]) < 6}} :
           i \in Processed(doc)}

\* The page without its rows of fewer than six cells.
WithoutShortRows(doc) ==
  [i \in 1..Len(doc) |->
     [doc[i] EXCEPT !.rows = SelectSeq(doc[i].rows, LAMBDA row : Len(row) >= 6)]]

\* C4: a row of fewer than six cells gives no record, whole or partial, and
\* the records of the other rows are the ones the page gives without it.
C4_ShortRowSkipped ==
  Scraped =>
    /\ commodities = scrape_commodity_prices("ok", WithoutShortRows(page))
    /\ Len(commodities) = Cardinality(Slots(page))
    /\ \A i \in 1..Len(commodities) :
         DOMAIN commodities[i] = {Columns[k] : k \in 1..Len(Columns)}

\* A short row stands before a long row of the same table, which has given
\* its record.
C4_Witness ==
  /\ Scraped
  /\ \E sh \in ShortSlots(page), sl \in Slots(page) : sh[1] = sl[1] /\ sh[2] < sl[2]
  /\ commodities # <<>>
\* ------------------------------------------------------------------- C5
\* C5 as stated: the trend is up when the live-value element of the
\* percentage cell carries the green marker, down when it carries the red
\* marker, neutral when it carries neither.
C5_AsStated ==
  Scraped =>
    \A sl \in Slots(page) :
      LET rec == commodities[Rank(page, sl)]
          cell == RowAt(page, sl)[3]
      IN /\ Marked(cell, "colorGreen") => rec.trend = "up"
         /\ Marked(cell, "colorRed") => rec.trend = "down"
         /\ (~Marked(cell, "colorGreen") /\ ~Marked(cell, "colorRed"))
              => rec.trend = "neutral"
         /\ rec.trend \in {"up", "down", "neutral"}

\* C5 amended: the trend is up when the live-value element of the
\* percentage cell carries the green marker, down when it carries the red
\* marker and not the green one, neutral when it carries neither or when
\* the cell has no live-value element; it is always one of the three.
C5_Trend ==
  Scraped =>
    \A sl \in Slots(page) :
      LET rec == commodities[Rank(page, sl)]
          cell == RowAt(page, sl)[3]
      IN /\ Marked(cell, "colorGreen") => rec.trend = "up"
         /\ (Marked(cell, "colorRed") /\ ~Marked(cell, "colorGreen"))
              => rec.trend = "down"
         /\ (~Marked(cell, "colorGreen") /\ ~Marked(cell, "colorRed"))
              => rec.trend = "neutral"
         /\ rec.trend \in {"up", "down", "neutral"}

\* A record whose percentage cell carries both markers.
C5_Witness ==
  /\ Scraped
  /\ \E sl \in Slots(page) :
       /\ Marked(RowAt(page, sl)[3], "colorGreen")
       /\ Marked(RowAt(page, sl)[3], "colorRed")
       /\ commodities[Rank(page, sl)].trend = "up"

\* ------------------------------------------------------------------- C6
\* The text a field is to be trimmed from, by the live-value element.
LiveOrRaw(cell) == IF HasLive(cell) THEN LiveElem(cell).text ELSE text(cell)

\* The same by the first anchor of the cell.
AnchorOrRaw(cell) ==
  IF AnchorIdx(cell) # {} THEN cell[Least(AnchorIdx(cell))].text ELSE text(cell)

\* C6 as stated: name, price, percentage change and absolute change are
\* each the trimmed text of the cell's live-value element when it has one,
\* else the trimmed raw text of the cell.
C6_AsStated ==
  Scraped =>
    \A sl \in Slots(page) :
      LET rec == commodities[Rank(page, sl)]
          row == RowAt(page, sl)
      IN /\ IsTrimmed(LiveOrRaw(row[1]), rec.name)
         /\ IsTrimmed(LiveOrRaw(row[2]), rec.price)
         /\ IsTrimmed(LiveOrRaw(row[3]), rec.percentage_change)
         /\ IsTrimmed(LiveOrRaw(row[4]), rec.absolute_change)

\* C6 amended: price, percentage change and absolute change are each the
\* trimmed text of the cell's live-value element when it has one, else the
\* trimmed raw text of the cell; the name is the trimmed text of the cell's
\* nested link (its first anchor) when it has one, else the trimmed raw text
\* of the cell, whether or not the cell has a live-value element.
C6_Fields ==
  Scraped =>
    \A sl \in Slots(page) :
      LET rec == commodities[Rank(page, sl)]
          row == RowAt(page, sl)
      IN /\ IsTrimmed(AnchorOrRaw(row[1]), rec.name)
         /\ IsTrimmed(LiveOrRaw(row[2]), rec.price)
         /\ IsTrimmed(LiveOrRaw(row[3]), rec.percentage_change)
         /\ IsTrimmed(LiveOrRaw(row[4]), rec.absolute_change)

\* A record whose name cell has a live-value element and no anchor, and
\* text outside the element; its price is read from a live-value element.
C6_Witness ==
  /\ Scraped
  /\ \E sl \in Slots(page) :
       LET row == RowAt(page, sl) IN
       /\ HasLive(row[1]) /\ AnchorIdx(row[1]) = {} /\ Len(row[1]) > 1
       /\ HasLive(row[2])
       /\ commodities[Rank(page, sl)].name # commodities[Rank(page, sl)].price

\* ------------------------------------------------------------------- C7
\* C7 as stated: a run whose extraction gave a record writes every output
\* file.
C7_AsStated == (Exited /\ commodities # <<>>) => AllWritten

\* C7 amended: when a run reports success it has written every output file
\* - a timestamped JSON file, a timestamped CSV file, latest_prices.json,
\* latest_prices.csv and summary.json - each carrying the records of this
\* run; a run whose write raises reports no success.
C7_WrittenBeforeSuccess ==
  Succeeded =>
    /\ commodities # <<>>
    /\ AllWritten
    /\ \A n \in SnapshotsWritten("json") : ReadsBack(files[n])
    /\ \A n \in SnapshotsWritten("csv") : CsvCarries(files[n])
    /\ ReadsBack(files[LatestJson])
    /\ CsvCarries(files[LatestCsv])
    /\ SummaryReadsBack(files[SummaryJson])

\* A second run has reported success over files an earlier run left.
C7_Witness ==
  /\ Exited /\ exit_code = 0
  /\ runsLeft < MaxRuns - 1
  /\ Len(commodities) >= 2
  /\ DOMAIN files # written

\* ------------------------------------------------------------------- C8
\* C8: once a run has written latest_prices.json, reading the file back
\* gives the records of the run - as many, in the same order, each field
\* with the same value - and total_commodities is their number.
C8_RoundTrip == LatestJson \in written => ReadsBack(files[LatestJson])

\* The file is written and the name of a record holds a quote and a
\* backslash, which the file holds escaped.
C8_Witness ==
  /\ LatestJson \in written
  /\ \E i \in 1..Len(commodities) :
       /\ \E k \in 1..Len(commodities[i].name) : commodities[i].name[k] = "\\"
       /\ \E k \in 1..Len(commodities[i].name) : commodities[i].name[k] = "\""

\* ------------------------------------------------------------------- C9
\* C9 as stated: a run that succeeds has records of all four categories.
C9_AsStated ==
  Succeeded => CategorySet(commodities) = {categories[i] : i \in 1..4}

\* C9 amended: a run that succeeds and writes output has one record or
\* more, of one or more of the four categories and not of all of them when
\* fewer than four tables gave a row; the categories field it writes is the
\* number of categories it has.  A run without a record writes nothing and
\* exits with 1.
C9_Success ==
  /\ Succeeded =>
       /\ commodities # <<>>
       /\ CategorySet(commodities) \subseteq {categories[i] : i \in 1..4}
       /\ (pc # "idle" =>
             CategorySet(commodities) =
               {categories[Position(page, sl[1])] : sl \in Slots(page)})
       /\ Get(load(files[LatestJson]), Str("categories")) =
            JNum(Cardinality(CategorySet(commodities)))
  /\ (Exited /\ commodities = <<>>) => (exit_code = 1 /\ written = {})

\* A run has succeeded with records of two of the categories, the second
\* and the fourth.
C9_Witness ==
  /\ Exited /\ exit_code = 0
  /\ CategorySet(commodities) = {categories[2], categories[4]}

\* ------------------------------------------------------------------ C10
\* C10 as stated: the timestamped files a run writes bear names that no
\* earlier run that reported success has written, so that no such file is
\* ever written over.
C10_AsStated ==
  pc # "idle" =>
    \A n \in SnapshotsWritten("json") \cup SnapshotsWritten("csv") : n \notin archived

====
